---------------------------- MODULE Spec2Model ----------------------------
(***************************************************************************)
(* Model of config-generator-stage-redirection.py.                         *)
(*                                                                         *)
(* A Python string is a sequence of tokens.  The token "/" is the path     *)
(* separator; every other token (a stage name, "stage", "se_stage_",       *)
(* ".bin", ...) is an indivisible piece of text that contains no "/".      *)
(* str.split, str.join, str.replace, str.startswith and Path.parent are    *)
(* defined on these sequences the way Python defines them on characters.   *)
(***************************************************************************)
EXTENDS Naturals, Sequences, FiniteSets, TLC

(***************************************************************************)
(* Bounds of the model.                                                    *)
(***************************************************************************)
MaxSegs == 4
MaxManifest == 2
MaxDisk == 2
MaxRenameFiles == 3
MaxDirs == 4
MaxHeld == 1

(***************************************************************************)
(* Python string primitives.                                               *)
(***************************************************************************)
Slash == "/"
Backslash == "\\"

Last(s) == s[Len(s)]

StartsWith(s, pre) ==
    /\ Len(pre) <= Len(s)
    /\ SubSeq(s, 1, Len(pre)) = pre

\* s.replace(old, new): every non-overlapping occurrence, left to right.
RECURSIVE Replace(_, _, _)
Replace(s, old, new) ==
    IF Len(s) = 0 THEN << >>
    ELSE IF StartsWith(s, old)
         THEN new \o Replace(SubSeq(s, Len(old) + 1, Len(s)), old, new)
         ELSE <<Head(s)>> \o Replace(Tail(s), old, new)

\* s.split("/"): always at least one part; parts may be empty.
RECURSIVE Split(_)
Split(s) ==
    IF Len(s) = 0 THEN << << >> >>
    ELSE IF Head(s) = Slash THEN << << >> >> \o Split(Tail(s))
         ELSE LET rest == Split(Tail(s))
              IN  << <<Head(s)>> \o Head(rest) >> \o Tail(rest)

\* "/".join(parts)
RECURSIVE Join(_)
Join(parts) ==
    IF Len(parts) = 0 THEN << >>
    ELSE IF Len(parts) = 1 THEN parts[1]
         ELSE parts[1] \o <<Slash>> \o Join(Tail(parts))

\* str(Path(p).parent) with "\\" replaced by "/"; "." when there is no parent.
Dot == <<".">>
RECURSIVE LastSlash(_, _)
LastSlash(p, i) ==
    IF i = 0 THEN 0
    ELSE IF p[i] = Slash THEN i ELSE LastSlash(p, i - 1)
Parent(p) ==
    LET i == LastSlash(p, Len(p))
    IN  IF i = 0 THEN Dot ELSE SubSeq(p, 1, i - 1)

(***************************************************************************)
(* Stage names.                                                            *)
(***************************************************************************)
Stages == {"dk_waterfall", "dk_hijinxs"}

(***************************************************************************)
(* substitute_stage_name                                                   *)
(***************************************************************************)
\* Variant without the len(parts) >= 3 test.
substitute_stage_name_any_length(path_in_current, current_stage, base_stage) ==
    LET parts == Split(Replace(path_in_current, <<Backslash>>, <<Slash>>))
    IN  IF /\ Len(parts) >= 2
           /\ parts[1] = <<"stage">>
           /\ parts[2] = <<current_stage>>
        THEN Join([parts EXCEPT ![2] = <<base_stage>>])
        ELSE Join(parts)

substitute_stage_name(path_in_current, current_stage, base_stage) ==
    LET parts == Split(Replace(path_in_current, <<Backslash>>, <<Slash>>))
    IN  IF /\ Len(parts) >= 3
           /\ parts[1] = <<"stage">>
           /\ parts[2] = <<current_stage>>
        THEN Join([parts EXCEPT ![2] = <<base_stage>>])
        ELSE Join(parts)

(***************************************************************************)
(* Static tables.                                                          *)
(***************************************************************************)
ALLOWED_EXTENSIONS ==
    {".adjb", ".arc", ".bin", ".bntx", ".eff", ".h264", ".lc", ".lvd", ".nro",
     ".nuanmb", ".nuhlpb", ".numatb", ".numdlb", ".numshb", ".numshexb",
     ".nus3audio", ".nus3bank", ".nusktb", ".nusrcmdlb", ".nutexb", ".prc",
     ".shpc", ".shpcanim", ".sqb", ".stdat", ".stprm", ".tonelabel", ".xmb"}
SOUND_EXTS == <<".nus3audio", ".nus3bank", ".tonelabel">>
UI_NAMES ==
    [n \in {"battlefield_l", "battlefield_s"} |->
        IF n = "battlefield_l" THEN "BattleFieldL" ELSE "BattleFieldS"]
UI_IS_PATCH ==
    {"brave_altar", "jack_mementoes", "sp_edit", "demon_dojo", "ff_cave",
     "buddy_spiral", "pickel_world", "dolly_stadium", "xeno_alst",
     "battlefield_s", "homeruncontest", "trail_castle", "fe_shrine",
     "tantan_spring"}

\* range(5) of ui_paths_for and rename_stage, and str(i) for each i.
UiCount == 5
Digit == <<"0", "1", "2", "3", "4">>

Range(s) == {s[i] : i \in DOMAIN s}

\* Path(p).suffix: the text of the last component from its last "."; file
\* names are written with their extension as the last token.
Suffix(p) ==
    IF Len(p) > 0 /\ Last(p) \in ALLOWED_EXTENSIONS \cup {".prcxml"}
    THEN Last(p) ELSE ""

is_allowed(p) == Suffix(p) \in ALLOWED_EXTENSIONS

\* sub in s
RECURSIVE Contains(_, _)
Contains(s, sub) ==
    \/ StartsWith(s, sub)
    \/ Len(s) > 0 /\ Contains(Tail(s), sub)

(***************************************************************************)
(* Category path templates.                                                *)
(***************************************************************************)
sound_paths_for(stage_name) ==
    [i \in 1..Len(SOUND_EXTS) |->
        <<"sound", Slash, "bank", Slash, "stage", Slash,
          "se_stage_", stage_name, SOUND_EXTS[i]>>]

ui_paths_for(stage_name) ==
    LET ui_replace == IF stage_name \in UI_IS_PATCH
                      THEN "replace_patch" ELSE "replace"
        stage_ui == IF stage_name \in DOMAIN UI_NAMES
                    THEN UI_NAMES[stage_name] ELSE stage_name
    IN  [i \in 1..UiCount |->
            <<"ui", Slash, ui_replace, Slash, "stage", Slash,
              "stage", "_", Digit[i], Slash,
              "stage", "_", Digit[i], "_", stage_ui, ".bntx">>]

is_stage_sound_for(stage_name, path_str) ==
    \E ext \in {".nus3audio", ".nus3bank", ".tonelabel"} :
        path_str = <<"sound", Slash, "bank", Slash, "stage", Slash,
                     "se_stage_", stage_name, ext>>

eff_path_for(stage_name) ==
    <<"effect", Slash, "stage", Slash, stage_name, Slash,
      "ef_", stage_name, ".eff">>

is_stage_eff_for(stage_name, path_str) == eff_path_for(stage_name) = path_str

(***************************************************************************)
(* Manifest helpers.                                                       *)
(***************************************************************************)
build_base_stage_files(file_array, base_stage) ==
    LET pref_b == <<"stage", Slash, base_stage, Slash, "battle", Slash>>
        pref_n == <<"stage", Slash, base_stage, Slash, "normal", Slash>>
    IN  SelectSeq(file_array,
                  LAMBDA p : StartsWith(p, pref_b) \/ StartsWith(p, pref_n))

in_base_dirs(cp, base_file_set) ==
    \E p \in base_file_set : p = cp \/ StartsWith(p, cp \o <<Slash>>)

(***************************************************************************)
(* build_base_dir_infos.  The manifest's nested "dirs" object              *)
(* {"directories": {name: node}} is written as the set of the paths of     *)
(* its nodes; a node exists exactly when its path is in the set.           *)
(***************************************************************************)
\* Tokens of directory names in ascending order of their text.
TokenOrder ==
    <<Slash, "battle", "dk_hijinxs", "dk_waterfall", "model", "normal",
      "sound", "stage">>
TokenRank(t) == CHOOSE i \in DOMAIN TokenOrder : TokenOrder[i] = t

\* s < t as Python compares the two strings.
RECURSIVE LessStr(_, _)
LessStr(s, t) ==
    IF Len(t) = 0 THEN FALSE
    ELSE IF Len(s) = 0 THEN TRUE
    ELSE IF Head(s) = Head(t) THEN LessStr(Tail(s), Tail(t))
    ELSE TokenRank(Head(s)) < TokenRank(Head(t))

RECURSIVE Sorted(_)
Sorted(S) ==
    IF S = {} THEN << >>
    ELSE LET m == CHOOSE x \in S : \A y \in S \ {x} : LessStr(x, y)
         IN  <<m>> \o Sorted(S \ {m})

NodeName(d) == Last(Split(d))
SubNodes(tree, d) == {c \in tree : Len(Split(c)) > 1 /\ Parent(c) = d}

RECURSIVE walk(_, _, _)
walk(tree, node, prefix) ==
    {prefix} \cup
    UNION {walk(tree, sub, prefix \o <<Slash>> \o NodeName(sub)) :
              sub \in SubNodes(tree, node)}

\* stage_branch is None when the tree has no node stage/<base_stage>; walk
\* then raises on node.get and the whole call fails.
Crash == [raised |-> TRUE]
build_base_dir_infos(tree_root, base_stage, current_stage) ==
    LET stage_branch == <<"stage", Slash, base_stage>>
    IN  IF stage_branch \notin tree_root THEN Crash
        ELSE [raised |-> FALSE,
              value |-> Sorted(walk(tree_root, stage_branch,
                                    <<"stage", Slash, current_stage>>))]

(***************************************************************************)
(* add_dir_with_parents.  new_dir_infos_set always holds the elements of   *)
(* new_dir_infos (lines 108-109 and 307-308 update both), so it is         *)
(* Range(new_dir_infos).                                                   *)
(***************************************************************************)
RECURSIVE add_dir_with_parents(_, _, _)
add_dir_with_parents(d, base_file_set, new_dir_infos) ==
    LET added == IF /\ d /= << >>
                    /\ d /= Dot
                    /\ d \notin Range(new_dir_infos)
                    /\ ~in_base_dirs(d, base_file_set)
                 THEN Append(new_dir_infos, d)
                 ELSE new_dir_infos
    IN  IF d = Dot \/ d = << >> THEN added
        ELSE IF Parent(d) = Dot THEN added
        ELSE add_dir_with_parents(Parent(d), base_file_set, added)

(***************************************************************************)
(* main, lines 245-327: the redirection plan.  new_files_set always holds  *)
(* the elements of new_files, so it is Range(new_files).                   *)
(***************************************************************************)
EmptyMap == [k \in {} |-> k]
Put(map, k, v) == [x \in DOMAIN map \cup {k} |-> IF x = k THEN v ELSE map[x]]

\* share_to_vanilla[key] = target, then queue target as a new file.
Share(acc, key, target, base_file_set) ==
    [share_to_vanilla |-> Put(acc.share_to_vanilla, key, target),
     new_files |-> IF target \notin base_file_set
                      /\ target \notin Range(acc.new_files)
                   THEN Append(acc.new_files, target)
                   ELSE acc.new_files]

\* lines 262: the target of a stage-scoped file
stage_target(share_file, base_stage, current_stage) ==
    Replace(share_file, <<Slash, base_stage, Slash>>,
                        <<Slash, current_stage, Slash>>)

\* lines 261-266
RECURSIVE ShareStageFiles(_, _, _, _, _)
ShareStageFiles(to_share, acc, base_stage, current_stage, base_file_set) ==
    IF Len(to_share) = 0 THEN acc
    ELSE ShareStageFiles(
            Tail(to_share),
            Share(acc, Head(to_share),
                  stage_target(Head(to_share), base_stage, current_stage),
                  base_file_set),
            base_stage, current_stage, base_file_set)

\* lines 270-277 and 279-286: one loop over category paths; "from" and "to"
\* are the texts of the loop's str.replace.
RECURSIVE ShareCategory(_, _, _, _, _, _)
ShareCategory(paths, from, to, acc, scanned_files, base_file_set) ==
    IF Len(paths) = 0 THEN acc
    ELSE LET path == Head(paths)
             target == Replace(path, from, to)
         IN  ShareCategory(
                Tail(paths), from, to,
                IF path \in scanned_files \/ target \in scanned_files
                THEN acc
                ELSE Share(acc, path, target, base_file_set),
                scanned_files, base_file_set)

\* lines 288-294
ShareEffect(acc, base_stage, current_stage, scanned_files, base_file_set) ==
    LET eff_path == eff_path_for(base_stage)
        target_eff_path == eff_path_for(current_stage)
    IN  IF eff_path \notin scanned_files /\ target_eff_path \notin scanned_files
        THEN Share(acc, eff_path, target_eff_path, base_file_set)
        ELSE acc

\* lines 296-299, the scanned files taken in the order "order"
RECURSIVE AddScanned(_, _, _)
AddScanned(order, new_files, base_file_set) ==
    IF Len(order) = 0 THEN new_files
    ELSE AddScanned(
            Tail(order),
            IF Head(order) \notin base_file_set
               /\ Head(order) \notin Range(new_files)
            THEN Append(new_files, Head(order))
            ELSE new_files,
            base_file_set)

\* lines 305-308
RECURSIVE AddBaseDirInfos(_, _)
AddBaseDirInfos(base_dir_infos, new_dir_infos) ==
    IF Len(base_dir_infos) = 0 THEN new_dir_infos
    ELSE AddBaseDirInfos(
            Tail(base_dir_infos),
            IF Head(base_dir_infos) \notin Range(new_dir_infos)
            THEN Append(new_dir_infos, Head(base_dir_infos))
            ELSE new_dir_infos)

\* lst = new_dir_files.setdefault(key, []); if f not in lst: lst.append(f)
AddDirFile(new_dir_files, key, f) ==
    LET lst == IF key \in DOMAIN new_dir_files THEN new_dir_files[key]
               ELSE << >>
    IN  Put(new_dir_files, key,
            IF f \in Range(lst) THEN lst ELSE Append(lst, f))

\* lines 313-327
RECURSIVE GroupNewFiles(_, _, _, _)
GroupNewFiles(new_files, acc, current_stage, base_file_set) ==
    IF Len(new_files) = 0 THEN acc
    ELSE LET f == Head(new_files)
             sound_key_normal ==
                 <<"stage", Slash, current_stage, Slash, "normal", Slash, "sound">>
             sound_key_battle ==
                 <<"stage", Slash, current_stage, Slash, "battle", Slash, "sound">>
             parent_dir == Parent(f)
             next ==
                 IF is_stage_sound_for(current_stage, f)
                 THEN [new_dir_files |->
                          AddDirFile(AddDirFile(acc.new_dir_files,
                                                sound_key_normal, f),
                                     sound_key_battle, f),
                       new_dir_infos |->
                          add_dir_with_parents(
                              sound_key_battle, base_file_set,
                              add_dir_with_parents(sound_key_normal,
                                                   base_file_set,
                                                   acc.new_dir_infos))]
                 ELSE IF Contains(f, <<"ui", Slash>>) THEN acc
                 ELSE [new_dir_files |->
                          IF parent_dir /= << >> /\ parent_dir /= Dot
                          THEN AddDirFile(acc.new_dir_files, parent_dir, f)
                          ELSE acc.new_dir_files,
                       new_dir_infos |->
                          add_dir_with_parents(parent_dir, base_file_set,
                                               acc.new_dir_infos)]
         IN  GroupNewFiles(Tail(new_files), next, current_stage, base_file_set)

\* The files share_to_vanilla and new_files are built from (lines 245-299).
\* on_disk is collect_all_allowed(root); order is the order in which
\* "for f in scanned_files" takes the scanned files.
PlanFiles(is_renamed, on_disk, order, base_stage, current_stage, file_array) ==
    LET base_file_set == Range(file_array)
        base_stage_files == build_base_stage_files(file_array, base_stage)
        scanned_files ==
            IF is_renamed THEN on_disk
            ELSE {substitute_stage_name(q, base_stage, current_stage) :
                     q \in on_disk}
        scanned_files_base ==
            IF is_renamed
            THEN {substitute_stage_name(q, current_stage, base_stage) :
                     q \in on_disk}
            ELSE on_disk
        to_share == SelectSeq(base_stage_files,
                              LAMBDA q : q \notin scanned_files_base)
        a1 == ShareStageFiles(to_share,
                              [share_to_vanilla |-> EmptyMap, new_files |-> << >>],
                              base_stage, current_stage, base_file_set)
        a2 == ShareCategory(sound_paths_for(base_stage),
                            <<"se_stage_", base_stage>>,
                            <<"se_stage_", current_stage>>,
                            a1, scanned_files, base_file_set)
        a3 == ShareCategory(ui_paths_for(base_stage),
                            <<"_", base_stage>>, <<"_", current_stage>>,
                            a2, scanned_files, base_file_set)
        a4 == ShareEffect(a3, base_stage, current_stage, scanned_files,
                          base_file_set)
    IN  [share_to_vanilla |-> a4.share_to_vanilla,
         new_files |-> AddScanned(order, a4.new_files, base_file_set),
         scanned_files |-> scanned_files]

(***************************************************************************)
(* The mod folder: fs.files and fs.dirs are the paths, relative to the     *)
(* root, of its files and of its directories.                              *)
(***************************************************************************)
Exists(fs, p) == p \in fs.files \cup fs.dirs
Under(p, d) == StartsWith(p, d \o <<Slash>>)

RECURSIVE Ancestors(_)
Ancestors(p) ==
    IF Parent(p) = Dot THEN {}
    ELSE {Parent(p)} \cup Ancestors(Parent(p))

Moved(p, src, dst) ==
    IF p = src \/ Under(p, src)
    THEN dst \o SubSeq(p, Len(src) + 1, Len(p))
    ELSE p

\* Path.rename: the source, with everything below it, moves to dst.
PathRename(fs, src, dst) ==
    [files |-> {Moved(f, src, dst) : f \in fs.files},
     dirs |-> {Moved(d, src, dst) : d \in fs.dirs}]

\* dst.parent.mkdir(parents=True, exist_ok=True)
MkdirParents(fs, dst) == [fs EXCEPT !.dirs = @ \cup Ancestors(dst)]

(***************************************************************************)
(* safe_rename.  "failure" is what the operating system does to this call: *)
(* "none", or "mkdir" / "rename" when that call raises OSError.  mkdir     *)
(* also raises when a file stands where a parent directory is needed.      *)
(* The result says what the caller sees: True, False or an exception.      *)
(***************************************************************************)
\* Variant without the dst.exists() test: Path.rename replaces the destination.
safe_rename_overwrite(fs, src, dst, failure) ==
    IF ~Exists(fs, src) THEN [fs |-> fs, result |-> "False"]
    ELSE IF failure = "mkdir" \/ Ancestors(dst) \cap fs.files /= {}
    THEN [fs |-> fs, result |-> "raised"]
    ELSE IF failure = "rename"
    THEN [fs |-> MkdirParents(fs, dst), result |-> "raised"]
    ELSE [fs |-> PathRename(
                    MkdirParents([files |-> fs.files \ {dst},
                                  dirs |-> fs.dirs \ {dst}], dst), src, dst),
          result |-> "True"]

safe_rename(fs, src, dst, failure) ==
    IF ~Exists(fs, src) THEN [fs |-> fs, result |-> "False"]
    ELSE IF Exists(fs, dst) THEN [fs |-> fs, result |-> "False"]
    ELSE IF failure = "mkdir" \/ Ancestors(dst) \cap fs.files /= {}
    THEN [fs |-> fs, result |-> "raised"]
    ELSE IF failure = "rename"
    THEN [fs |-> MkdirParents(fs, dst), result |-> "raised"]
    ELSE [fs |-> PathRename(MkdirParents(fs, dst), src, dst),
          result |-> "True"]

\* rename_stage, lines 140-147: the list of (src, dst) pairs.
ChangesUi(old, new) ==
    [k \in 1..(2 * UiCount) |->
        LET i == (k + 1) \div 2
            dir == IF k % 2 = 1 THEN "replace" ELSE "replace_patch"
        IN  << <<"ui", Slash, dir, Slash, "stage", Slash,
                 "stage", "_", Digit[i], Slash,
                 "stage", "_", Digit[i], "_", old, ".bntx">>,
               <<"ui", Slash, dir, Slash, "stage", Slash,
                 "stage", "_", Digit[i], Slash,
                 "stage", "_", Digit[i], "_", new, ".bntx">> >>]

Changes(old, new) ==
    << <<eff_path_for(old), eff_path_for(new)>> >>
    \o [i \in 1..Len(SOUND_EXTS) |->
           << <<"sound", Slash, "bank", Slash, "stage", Slash,
                "se_stage_", old, SOUND_EXTS[i]>>,
              <<"sound", Slash, "bank", Slash, "stage", Slash,
                "se_stage_", new, SOUND_EXTS[i]>> >>]
    \o ChangesUi(old, new)
    \o << << <<"stage", Slash, old>>, <<"stage", Slash, new>> >> >>

\* One turn of the loop of lines 149-153 on pair i.
RenameOne(fs, done, changes, i, failure) ==
    LET r == safe_rename(fs, changes[i][1], changes[i][2], failure)
    IN  [fs |-> r.fs,
         done |-> IF r.result = "True" THEN done + 1 ELSE done,
         result |-> r.result]

\* The whole loop from pair i on; failures[i] is what happens to pair i.
RECURSIVE RenameFrom(_, _, _, _, _)
RenameFrom(fs, done, changes, i, failures) ==
    IF i > Len(changes) THEN [fs |-> fs, done |-> done]
    ELSE LET r == RenameOne(fs, done, changes, i, failures[i])
         IN  RenameFrom(r.fs, r.done, changes, i + 1, failures)

rename_stage(fs, old, new, failures) ==
    RenameFrom(fs, 0, Changes(old, new), 1, failures)

(***************************************************************************)
(* delete_empty_dirs                                                       *)
(***************************************************************************)
Perms(S) ==
    {f \in [1..Cardinality(S) -> S] :
        \A i, j \in 1..Cardinality(S) : i /= j => f[i] /= f[j]}

SubDirs(fs, d) == {c \in fs.dirs : Parent(c) = d}

\* get_dirs: every list it can return; iterdir may list a directory's
\* entries in any order, and each directory is followed by its subtree.
RECURSIVE GetDirsIn(_, _), GetDirsOf(_, _)
GetDirsIn(fs, listing) ==
    IF Len(listing) = 0 THEN {<< >>}
    ELSE {<<Head(listing)>> \o below \o rest :
             below \in GetDirsOf(fs, Head(listing)),
             rest \in GetDirsIn(fs, Tail(listing))}
GetDirsOf(fs, path) ==
    UNION {GetDirsIn(fs, listing) : listing \in Perms(SubDirs(fs, path))}

get_dirs(fs) == GetDirsOf(fs, Dot)

\* p.rmdir() succeeds exactly on an existing, empty directory.
CanRmdir(fs, p) ==
    /\ p \in fs.dirs
    /\ \A q \in fs.files \cup fs.dirs : Parent(q) /= p

Rmdir(fs, p) == [fs EXCEPT !.dirs = @ \ {p}]

\* Variant that forgets "done = False" after a successful rmdir.
RmdirOne_done_kept(fs, done, p) ==
    IF CanRmdir(fs, p) THEN [fs |-> Rmdir(fs, p), done |-> done]
    ELSE [fs |-> fs, done |-> done]

\* One turn of "for p in dirs" (lines 194-199).
RmdirOne(fs, done, p) ==
    IF CanRmdir(fs, p) THEN [fs |-> Rmdir(fs, p), done |-> FALSE]
    ELSE [fs |-> fs, done |-> done]

RECURSIVE DeletePass(_, _, _, _)
DeletePass(fs, done, dirs, i) ==
    IF i > Len(dirs) THEN [fs |-> fs, done |-> done]
    ELSE LET r == RmdirOne(fs, done, dirs[i])
         IN  DeletePass(r.fs, r.done, dirs, i + 1)

\* The while loop of lines 192-199, run to its end.
RECURSIVE DeleteLoop(_, _)
DeleteLoop(fs, dirs) ==
    LET r == DeletePass(fs, TRUE, dirs, 1)
    IN  IF r.done THEN r.fs ELSE DeleteLoop(r.fs, dirs)

(***************************************************************************)
(* A run of main.                                                          *)
(***************************************************************************)
VARIABLES
    \* a run of main; fs0 is the mod folder as the run found it
    pc, fs, fs0, manifest_keys, file_array, dirs_tree, detected_stage, is_renamed, base_stage,
    current_stage, plan, config, errors, renames, cleanups

mainVars == <<pc, fs, fs0, manifest_keys, file_array, dirs_tree, detected_stage, is_renamed,
              base_stage, current_stage, plan, config, errors, renames,
              cleanups>>

VARIABLES
    \* a call of substitute_stage_name and the call that undoes it
    s_pc, s_path, s_from, s_to, s_out, s_back

substVars == <<s_pc, s_path, s_from, s_to, s_out, s_back>>

VARIABLES
    \* a call of rename_stage
    r_pc, r_fs, r_old, r_new, r_i, r_done, r_prev, r_result

renameVars == <<r_pc, r_fs, r_old, r_new, r_i, r_done, r_prev, r_result>>

VARIABLES
    \* two calls of delete_empty_dirs, one after the other
    d_pc, d_fs, d_fs0, d_out, d_dirs, d_i, d_done, d_run

deleteVars == <<d_pc, d_fs, d_fs0, d_out, d_dirs, d_i, d_done, d_run>>

vars == <<mainVars, substVars, renameVars, deleteVars>>

NoFs == [files |-> {}, dirs |-> {}]

MainIdle ==
    /\ pc = "idle"
    /\ fs = NoFs
    /\ fs0 = NoFs
    /\ manifest_keys = {}
    /\ file_array = << >>
    /\ dirs_tree = {}
    /\ detected_stage = "None"
    /\ is_renamed = FALSE
    /\ base_stage = "None"
    /\ current_stage = "None"
    /\ plan = [built |-> FALSE]
    /\ config = [written |-> FALSE]
    /\ errors = 0
    /\ renames = 0
    /\ cleanups = 0

SubstIdle ==
    /\ s_pc = "idle"
    /\ s_path = << >>
    /\ s_from = "None"
    /\ s_to = "None"
    /\ s_out = << >>
    /\ s_back = << >>

RenameIdle ==
    /\ r_pc = "idle"
    /\ r_fs = NoFs
    /\ r_old = "None"
    /\ r_new = "None"
    /\ r_i = 0
    /\ r_done = 0
    /\ r_prev = [fs |-> NoFs, done |-> 0]
    /\ r_result = "None"

DeleteIdle ==
    /\ d_pc = "idle"
    /\ d_fs = NoFs
    /\ d_fs0 = NoFs
    /\ d_out = NoFs
    /\ d_dirs = << >>
    /\ d_i = 0
    /\ d_done = FALSE
    /\ d_run = 0

None == "None"
\* plan and config before they exist
NoPlan == [built |-> FALSE]
NoConfig == [written |-> FALSE]

W == "dk_waterfall"
H == "dk_hijinxs"

\* The manifest files a run may be given, in file_array order.
ManifestUniverse ==
    << <<"stage", Slash, W, Slash, "battle", Slash, "a", ".bin">>,
       <<"stage", Slash, W, Slash, "normal", Slash, W, Slash, "a", ".bin">>,
       <<"stage", Slash, H, Slash, "battle", Slash, "a", ".bin">>,
       <<"sound", Slash, "bank", Slash, "stage", Slash, "se_stage_", W, ".nus3audio">>,
       <<"effect", Slash, "stage", Slash, W, Slash, "ef_", W, ".eff">> >>

ManifestArrays ==
    {SelectSeq(ManifestUniverse, LAMBDA q : q \in S) :
        S \in {T \in SUBSET Range(ManifestUniverse) :
                  Cardinality(T) <= MaxManifest}}

\* The manifest directory trees a run may be given ({} is "dirs": {}).
DirTrees ==
    { {},
      { <<"stage">>, <<"stage", Slash, W>>,
        <<"stage", Slash, W, Slash, "battle">>,
        <<"stage", Slash, W, Slash, "normal">>,
        <<"stage", Slash, W, Slash, "normal", Slash, "model">> },
      { <<"stage">>, <<"stage", Slash, W>>,
        <<"stage", Slash, W, Slash, "battle">>,
        <<"stage", Slash, H>>,
        <<"stage", Slash, H, Slash, "battle">> } }

\* The files the mod folder may hold.
DiskUniverse ==
    { <<"stage", Slash, W, Slash, "battle", Slash, "a", ".bin">>,
      <<"stage", Slash, H, Slash, "battle", Slash, "a", ".bin">>,
      <<"stage", Slash, H, Slash, "normal", Slash, H, Slash, "a", ".bin">>,
      <<"stage", Slash, W, Slash, "battle", Slash, "b", ".prcxml">>,
      <<"sound", Slash, "bank", Slash, "stage", Slash, "se_stage_", W, ".nus3audio">>,
      <<"sound", Slash, "bank", Slash, "stage", Slash, "se_stage_", H, ".nus3audio">>,
      <<"effect", Slash, "stage", Slash, W, Slash, "ef_", W, ".eff">> }

\* Directories that may exist without any file below them.
BareDirs ==
    { {}, {<<"stage">>}, {<<"stage">>, <<"stage", Slash, W>>} }

\* The keys of the manifest object; base_data.get gives None for the others.
ManifestKeys == {{"file_array", "dirs"}, {"file_array"}, {"dirs"}}

DiskStates ==
    {[files |-> F, dirs |-> UNION {Ancestors(f) : f \in F} \cup B] :
        F \in {T \in SUBSET DiskUniverse : Cardinality(T) <= MaxDisk},
        B \in BareDirs}

Init ==
    /\ pc = "start"
    /\ fs \in DiskStates
    /\ fs0 = fs
    /\ manifest_keys \in ManifestKeys
    /\ file_array \in ManifestArrays
    /\ dirs_tree \in DirTrees
    /\ "file_array" \notin manifest_keys => file_array = << >>
    /\ "dirs" \notin manifest_keys => dirs_tree = {}
    /\ detected_stage = None
    /\ is_renamed = FALSE
    /\ base_stage = None
    /\ current_stage = None
    /\ plan = NoPlan
    /\ config = NoConfig
    /\ errors = 0
    /\ renames = 0
    /\ cleanups = 0
    /\ SubstIdle /\ RenameIdle /\ DeleteIdle

\* An exception leaves main and is caught at lines 399-401.
Raise ==
    /\ pc' = "failed"
    /\ errors' = errors + 1

\* find_single_stage_dir, line 224
FindSingleStageDir ==
    /\ pc = "start"
    /\ LET stage_dir == <<"stage">>
           subs == SubDirs(fs, stage_dir)
       IN  IF stage_dir \notin fs.dirs \/ Cardinality(subs) /= 1
           THEN Raise /\ UNCHANGED detected_stage
           ELSE /\ detected_stage' = Last(CHOOSE d \in subs : TRUE)
                /\ pc' = "ask_renamed"
                /\ UNCHANGED errors
    /\ UNCHANGED <<fs, manifest_keys, file_array, dirs_tree, is_renamed, base_stage,
                   current_stage, plan, config, renames, cleanups>>
    /\ UNCHANGED <<fs0, substVars, renameVars, deleteVars>>

\* user_yes_no, line 226
AskRenamed ==
    /\ pc = "ask_renamed"
    /\ \E answer \in BOOLEAN : is_renamed' = answer
    /\ pc' = "ask_stage"
    /\ UNCHANGED <<fs, manifest_keys, file_array, dirs_tree, detected_stage, base_stage,
                   current_stage, plan, config, errors, renames, cleanups>>
    /\ UNCHANGED <<fs0, substVars, renameVars, deleteVars>>

\* user_input, lines 227-234: a blank answer is asked again.
EnterStageName ==
    /\ pc = "ask_stage"
    /\ \E m_input \in Stages \cup {""} :
          IF m_input = ""
          THEN UNCHANGED <<pc, base_stage, current_stage>>
          ELSE /\ base_stage' = IF is_renamed THEN m_input ELSE detected_stage
               /\ current_stage' = IF is_renamed THEN detected_stage ELSE m_input
               /\ pc' = "load"
    /\ UNCHANGED <<fs, manifest_keys, file_array, dirs_tree, detected_stage, is_renamed,
                   plan, config, errors, renames, cleanups>>
    /\ UNCHANGED <<fs0, substVars, renameVars, deleteVars>>

\* lines 236-242
LoadManifest ==
    /\ pc = "load"
    /\ IF "dirs" \notin manifest_keys \/ "file_array" \notin manifest_keys
       THEN Raise
       ELSE pc' = "plan" /\ UNCHANGED errors
    /\ UNCHANGED <<fs, manifest_keys, file_array, dirs_tree, detected_stage, is_renamed,
                   base_stage, current_stage, plan, config, renames, cleanups>>
    /\ UNCHANGED <<fs0, substVars, renameVars, deleteVars>>

OnDisk == {f \in fs.files : is_allowed(f)}

\* lines 302-327 on the new_files of lines 245-299; Crash when
\* build_base_dir_infos raises.
PlanDirs(new_files, base, current, files, tree) ==
    LET base_dir_infos == build_base_dir_infos(tree, base, current)
    IN  IF base_dir_infos.raised THEN Crash
        ELSE LET grouped ==
                     GroupNewFiles(
                         new_files,
                         [new_dir_files |-> EmptyMap,
                          new_dir_infos |->
                              AddBaseDirInfos(base_dir_infos.value, << >>)],
                         current, Range(files))
             IN  [raised |-> FALSE,
                  new_dir_files |-> grouped.new_dir_files,
                  new_dir_infos |-> grouped.new_dir_infos]

\* lines 245-327
BuildPlan ==
    /\ pc = "plan"
    /\ \E files \in {PlanFiles(is_renamed, OnDisk, << >>, base_stage,
                               current_stage, file_array)} :
       \E order \in Perms(files.scanned_files) :
       \E new_files \in {AddScanned(order, files.new_files, Range(file_array))} :
       \E grouped \in {PlanDirs(new_files, base_stage, current_stage,
                                file_array, dirs_tree)} :
          IF grouped.raised
          THEN Raise /\ UNCHANGED plan
          ELSE /\ plan' = [built |-> TRUE,
                           share_to_vanilla |-> files.share_to_vanilla,
                           new_files |-> new_files,
                           new_dir_files |-> grouped.new_dir_files,
                           new_dir_infos |-> grouped.new_dir_infos,
                           scanned_files |-> files.scanned_files,
                           on_disk |-> OnDisk]
               /\ pc' = "write"
               /\ UNCHANGED errors
    /\ UNCHANGED <<fs, manifest_keys, file_array, dirs_tree, detected_stage,
                   is_renamed, base_stage, current_stage, config, renames,
                   cleanups>>
    /\ UNCHANGED <<fs0, substVars, renameVars, deleteVars>>

\* Variant in which write_config also runs before the plan is complete.
WriteConfig_before_plan ==
    /\ \/ /\ pc = "plan"
          /\ ~config.written
          /\ config' = [written |-> TRUE,
                        share_to_vanilla |-> EmptyMap,
                        new_dir_files |-> EmptyMap,
                        new_dir_infos |-> << >>]
          /\ UNCHANGED pc
       \/ /\ pc = "write"
          /\ config' = [written |-> TRUE,
                        share_to_vanilla |-> plan.share_to_vanilla,
                        new_dir_files |-> plan.new_dir_files,
                        new_dir_infos |-> plan.new_dir_infos]
          /\ pc' = IF is_renamed THEN "cleanup" ELSE "rename"
    /\ UNCHANGED <<fs, manifest_keys, file_array, dirs_tree, detected_stage,
                   is_renamed, base_stage, current_stage, plan, errors, renames,
                   cleanups>>
    /\ UNCHANGED <<fs0, substVars, renameVars, deleteVars>>

\* write_config, line 329
WriteConfig ==
    /\ pc = "write"
    /\ config' = [written |-> TRUE,
                  share_to_vanilla |-> plan.share_to_vanilla,
                  new_dir_files |-> plan.new_dir_files,
                  new_dir_infos |-> plan.new_dir_infos]
    /\ pc' = IF is_renamed THEN "cleanup" ELSE "rename"
    /\ UNCHANGED <<fs, manifest_keys, file_array, dirs_tree, detected_stage, is_renamed,
                   base_stage, current_stage, plan, errors, renames, cleanups>>
    /\ UNCHANGED <<fs0, substVars, renameVars, deleteVars>>

\* rename_stage, lines 331-333; any of the renames it tries may raise.
RenameStage ==
    /\ pc = "rename"
    /\ LET changes == Changes(base_stage, current_stage)
           tried == {i \in DOMAIN changes : Exists(fs, changes[i][1])}
       IN  \E bad \in SUBSET tried, kind \in {"mkdir", "rename"} :
             fs' = rename_stage(fs, base_stage, current_stage,
                                [i \in DOMAIN changes |->
                                    IF i \in bad THEN kind ELSE "none"]).fs
    /\ renames' = renames + 1
    /\ pc' = "cleanup"
    /\ UNCHANGED <<manifest_keys, file_array, dirs_tree, detected_stage, is_renamed,
                   base_stage, current_stage, plan, config, errors, cleanups>>
    /\ UNCHANGED <<fs0, substVars, renameVars, deleteVars>>

\* delete_empty_dirs, line 334
DeleteEmptyDirs ==
    /\ pc = "cleanup"
    /\ \E dirs \in get_dirs(fs) : fs' = DeleteLoop(fs, dirs)
    /\ cleanups' = cleanups + 1
    /\ pc' = "extras"
    /\ UNCHANGED <<manifest_keys, file_array, dirs_tree, detected_stage, is_renamed,
                   base_stage, current_stage, plan, config, errors, renames>>
    /\ UNCHANGED <<fs0, substVars, renameVars, deleteVars>>

\* lines 336-391: the two optional files
OptionalOutputs ==
    /\ pc = "extras"
    /\ \E is_add_xmsbt \in BOOLEAN, is_create_database \in BOOLEAN :
          LET xmsbt == <<"ui", Slash, "message", Slash, "msg_name", ".xmsbt">>
              database == <<"database", Slash, current_stage, ".json">>
              written == (IF is_add_xmsbt THEN {xmsbt} ELSE {})
                         \cup (IF is_create_database THEN {database} ELSE {})
          IN  fs' = [files |-> fs.files \cup written,
                     dirs |-> fs.dirs \cup UNION {Ancestors(f) : f \in written}]
    /\ pc' = "done"
    /\ UNCHANGED <<manifest_keys, file_array, dirs_tree, detected_stage, is_renamed,
                   base_stage, current_stage, plan, config, errors, renames,
                   cleanups>>
    /\ UNCHANGED <<fs0, substVars, renameVars, deleteVars>>

Next ==
    \/ FindSingleStageDir
    \/ AskRenamed
    \/ EnterStageName
    \/ LoadManifest
    \/ BuildPlan
    \/ WriteConfig
    \/ RenameStage
    \/ DeleteEmptyDirs
    \/ OptionalOutputs

Spec == Init /\ [][Next]_vars

(***************************************************************************)
(* substitute_stage_name called on a relative path, then called again on   *)
(* its result with the two stage tokens swapped.                           *)
(***************************************************************************)
\* The path components the calls are tried on.
SegmentPool == {<<"stage">>, <<"effect">>, <<W>>, <<H>>, <<"a", ".bin">>}

RelativePaths ==
    {Join(parts) : parts \in UNION {[1..n -> SegmentPool] : n \in 1..MaxSegs}}

SubstInit ==
    /\ s_pc = "input"
    /\ s_path \in RelativePaths
    /\ s_from \in Stages
    /\ s_to \in Stages
    /\ s_out = << >>
    /\ s_back = << >>
    /\ MainIdle /\ RenameIdle /\ DeleteIdle

Substitute ==
    /\ s_pc = "input"
    /\ s_out' = substitute_stage_name(s_path, s_from, s_to)
    /\ s_pc' = "substituted"
    /\ UNCHANGED <<s_path, s_from, s_to, s_back>>
    /\ UNCHANGED <<mainVars, renameVars, deleteVars>>

SubstituteBack ==
    /\ s_pc = "substituted"
    /\ s_back' = substitute_stage_name(s_out, s_to, s_from)
    /\ s_pc' = "reverted"
    /\ UNCHANGED <<s_path, s_from, s_to, s_out>>
    /\ UNCHANGED <<mainVars, renameVars, deleteVars>>

SubstNext ==
    \/ Substitute
    \/ SubstituteBack

SubstSpec == SubstInit /\ [][SubstNext]_vars

(***************************************************************************)
(* rename_stage, one pair of its list at a time.                           *)
(***************************************************************************)
\* The files the folder may hold when rename_stage is called.
RenameUniverse ==
    { eff_path_for(W), eff_path_for(H),
      sound_paths_for(W)[1], sound_paths_for(H)[1], sound_paths_for(W)[2],
      ui_paths_for(W)[1], ui_paths_for(H)[1],
      <<"stage", Slash, W, Slash, "battle", Slash, "a", ".bin">>,
      <<"stage", Slash, H, Slash, "battle", Slash, "a", ".bin">> }

RenameDisks ==
    {[files |-> F, dirs |-> UNION {Ancestors(f) : f \in F}] :
        F \in {T \in SUBSET RenameUniverse : Cardinality(T) <= MaxRenameFiles}}

RenameInit ==
    /\ r_pc = "start"
    /\ r_fs \in RenameDisks
    /\ r_old \in Stages
    /\ r_new \in Stages
    /\ r_i = 0
    /\ r_done = 0
    /\ r_prev = [fs |-> NoFs, done |-> 0]
    /\ r_result = "None"
    /\ MainIdle /\ SubstIdle /\ DeleteIdle

\* lines 140-148
RenameBegin ==
    /\ r_pc = "start"
    /\ r_pc' = "loop"
    /\ r_i' = 1
    /\ r_done' = 0
    /\ UNCHANGED <<r_fs, r_old, r_new, r_prev, r_result>>
    /\ UNCHANGED <<mainVars, substVars, deleteVars>>

\* lines 149-153, one pair
RenameStep ==
    /\ r_pc = "loop"
    /\ r_i <= Len(Changes(r_old, r_new))
    /\ \E failure \in {"none", "mkdir", "rename"} :
          LET r == RenameOne(r_fs, r_done, Changes(r_old, r_new), r_i, failure)
          IN  /\ r_fs' = r.fs
              /\ r_done' = r.done
              /\ r_result' = r.result
    /\ r_prev' = [fs |-> r_fs, done |-> r_done]
    /\ r_i' = r_i + 1
    /\ UNCHANGED <<r_pc, r_old, r_new>>
    /\ UNCHANGED <<mainVars, substVars, deleteVars>>

\* line 154
RenameReturn ==
    /\ r_pc = "loop"
    /\ r_i > Len(Changes(r_old, r_new))
    /\ r_pc' = "returned"
    /\ UNCHANGED <<r_fs, r_old, r_new, r_i, r_done, r_prev, r_result>>
    /\ UNCHANGED <<mainVars, substVars, deleteVars>>

RenameNext ==
    \/ RenameBegin
    \/ RenameStep
    \/ RenameReturn

RenameSpec == RenameInit /\ [][RenameNext]_vars

(***************************************************************************)
(* delete_empty_dirs, one rmdir at a time, called twice in a row.          *)
(***************************************************************************)
DirNames == {"x", "y"}

\* The directories that can be added to a tree: children of the root and of
\* the directories it has.
NewDirs(D) ==
    ({<<n>> : n \in DirNames}
     \cup {d \o <<Slash, n>> : d \in D, n \in DirNames}) \ D

RECURSIVE DirTreesUpTo(_)
DirTreesUpTo(n) ==
    IF n = 0 THEN {{}}
    ELSE LET smaller == DirTreesUpTo(n - 1)
         IN  smaller
             \cup UNION {{D \cup {c} : c \in NewDirs(D)} : D \in smaller}

\* A tree of at most MaxDirs directories, at most MaxHeld of which (the root
\* counted) hold a file.
DeleteDisks ==
    UNION {
        {[files |-> {IF h = Dot THEN <<"f", ".bin">>
                     ELSE h \o <<Slash, "f", ".bin">> : h \in holders},
          dirs |-> D] :
            holders \in {T \in SUBSET (D \cup {Dot}) :
                            Cardinality(T) <= MaxHeld}} :
        D \in DirTreesUpTo(MaxDirs)}

DeleteInit ==
    /\ d_pc = "start"
    /\ d_fs \in DeleteDisks
    /\ d_fs0 = d_fs
    /\ d_out = NoFs
    /\ d_dirs = << >>
    /\ d_i = 0
    /\ d_done = FALSE
    /\ d_run = 1
    /\ MainIdle /\ SubstIdle /\ RenameIdle

\* lines 190-191
DeleteGetDirs ==
    /\ d_pc = "start"
    /\ \E dirs \in get_dirs(d_fs) : d_dirs' = dirs
    /\ d_done' = FALSE
    /\ d_pc' = "while"
    /\ UNCHANGED <<d_fs, d_fs0, d_out, d_i, d_run>>
    /\ UNCHANGED <<mainVars, substVars, renameVars>>

\* lines 192-193: the test of the while loop, and the return when it fails
DeleteWhile ==
    /\ d_pc = "while"
    /\ IF ~d_done
       THEN /\ d_done' = TRUE
            /\ d_i' = 1
            /\ d_pc' = "for"
            /\ UNCHANGED d_out
       ELSE /\ d_pc' = "returned"
            /\ d_out' = IF d_run = 1 THEN d_fs ELSE d_out
            /\ UNCHANGED <<d_done, d_i>>
    /\ UNCHANGED <<d_fs, d_fs0, d_dirs, d_run>>
    /\ UNCHANGED <<mainVars, substVars, renameVars>>

\* lines 194-199: one directory of the for loop
DeleteFor ==
    /\ d_pc = "for"
    /\ IF d_i <= Len(d_dirs)
       THEN LET r == RmdirOne(d_fs, d_done, d_dirs[d_i])
            IN  /\ d_fs' = r.fs
                /\ d_done' = r.done
                /\ d_i' = d_i + 1
                /\ UNCHANGED d_pc
       ELSE /\ d_pc' = "while"
            /\ UNCHANGED <<d_fs, d_done, d_i>>
    /\ UNCHANGED <<d_fs0, d_out, d_dirs, d_run>>
    /\ UNCHANGED <<mainVars, substVars, renameVars>>

\* delete_empty_dirs is called again on what the first call left
DeleteAgain ==
    /\ d_pc = "returned"
    /\ d_run = 1
    /\ d_run' = 2
    /\ d_pc' = "start"
    /\ UNCHANGED <<d_fs, d_fs0, d_out, d_dirs, d_i, d_done>>
    /\ UNCHANGED <<mainVars, substVars, renameVars>>

DeleteNext ==
    \/ DeleteGetDirs
    \/ DeleteWhile
    \/ DeleteFor
    \/ DeleteAgain

\* The interpreter keeps running the call until it returns.
DeleteSpec == DeleteInit /\ [][DeleteNext]_vars /\ WF_vars(DeleteNext)

(***************************************************************************)
(* Properties of a run of main (specification Spec).                       *)
(***************************************************************************)
\* The run has built its plan (lines 245-327 have run without raising).
Planned == plan.built
\* The run has reached plan building.
ReachedPlanning == pc \in {"plan", "write", "rename", "cleanup", "extras", "done"}

IsBaseStageFile(p) ==
    \/ StartsWith(p, <<"stage", Slash, base_stage, Slash, "battle", Slash>>)
    \/ StartsWith(p, <<"stage", Slash, base_stage, Slash, "normal", Slash>>)

\* The current-stage counterpart of stage/<base_stage>/<rest>: only the
\* second path segment is rewritten.
Counterpart(p) == <<"stage", Slash, current_stage>> \o SubSeq(p, 4, Len(p))

\* d is a manifest path or a directory above one.
KnownToManifest(d) ==
    \E p \in Range(file_array) : p = d \/ StartsWith(p, d \o <<Slash>>)

\* C1: every manifest path under stage/<base_stage>/battle/ or /normal/ is
\* a key of share_to_vanilla exactly when its current-stage counterpart is
\* not in the scanned file set, and its value is then that counterpart.
C1_StageFilesShared ==
    (Planned /\ base_stage /= current_stage) =>
        \A p \in Range(file_array) :
            IsBaseStageFile(p) =>
                /\ p \in DOMAIN plan.share_to_vanilla
                       <=> Counterpart(p) \notin plan.scanned_files
                /\ p \in DOMAIN plan.share_to_vanilla
                       => plan.share_to_vanilla[p] = Counterpart(p)

\* C2: every key of share_to_vanilla is a path of the manifest's file_array
\* and no value is a path of the scanned file set.
C2_KeysFromManifest ==
    (Planned /\ base_stage /= current_stage) =>
        \A k \in DOMAIN plan.share_to_vanilla :
            /\ k \in Range(file_array)
            /\ plan.share_to_vanilla[k] \notin plan.scanned_files

\* The documented scenario: one battle file in the manifest, "dirs": {},
\* nothing scanned, base dk_waterfall, current dk_hijinxs.
C3_Scenario ==
    /\ manifest_keys = {"file_array", "dirs"}
    /\ file_array = << <<"stage", Slash, W, Slash, "battle", Slash, "a", ".bin">> >>
    /\ dirs_tree = {}
    /\ {f \in fs0.files : is_allowed(f)} = {}
    /\ base_stage = W
    /\ current_stage = H
\* C3: with file_array = ["stage/dk_waterfall/battle/a.bin"], dirs = {}, an
\* empty scanned set, base dk_waterfall and current dk_hijinxs, planning
\* completes with share_to_vanilla holding the one entry for a.bin and
\* new_files holding its target alone.
C3_ScenarioPlan ==
    (C3_Scenario /\ pc \notin {"load", "plan"}) =>
        /\ pc /= "failed"
        /\ Planned
        /\ plan.share_to_vanilla =
              [k \in {<<"stage", Slash, W, Slash, "battle", Slash, "a", ".bin">>}
                  |-> <<"stage", Slash, H, Slash, "battle", Slash, "a", ".bin">>]
        /\ plan.new_files =
              << <<"stage", Slash, H, Slash, "battle", Slash, "a", ".bin">> >>

\* C6: a run that failed before serialization has written no config, has
\* renamed and removed nothing, and its error was caught once; renames and
\* directory removals happen only after config.json is written.
C6_NothingBeforeConfig ==
    /\ errors <= 1
    /\ pc = "failed" =>
          /\ errors = 1
          /\ ~config.written
          /\ renames = 0
          /\ cleanups = 0
          /\ fs = fs0
    /\ (renames > 0 \/ cleanups > 0 \/ fs /= fs0) => config.written
\* Plan building itself failed: the manifest was loaded and the run ended
\* in the top-level handler.
C6_Witness ==
    /\ pc = "failed"
    /\ base_stage /= None
    /\ manifest_keys = {"file_array", "dirs"}
    /\ fs0.files /= {}

\* C8: no entry of new_dir_infos is a directory the manifest knows.
C8_NewDirsUnknown ==
    (Planned /\ base_stage /= current_stage) =>
        \A d \in Range(plan.new_dir_infos) : ~KnownToManifest(d)

\* C9: once a run reaches plan building, base_stage and current_stage differ.
C9_StagesDiffer ==
    ReachedPlanning => base_stage /= current_stage

\* The mod folder's files with every old-stage name of the rename
\* executor's list replaced by its new-stage name.
ToCurrentName(f) ==
    LET changes == Changes(base_stage, current_stage)
        hit == {i \in DOMAIN changes :
                   f = changes[i][1] \/ Under(f, changes[i][1])}
    IN  IF hit = {} THEN f
        ELSE LET i == CHOOSE j \in hit : TRUE
             IN  Moved(f, changes[i][1], changes[i][2])
HasCurrentName(f) ==
    \/ Under(f, <<"stage", Slash, current_stage>>)
    \/ \E i \in DOMAIN Changes(base_stage, current_stage) :
          f = Changes(base_stage, current_stage)[i][2]

\* What the run in "already renamed" mode plans for the renamed folder.
RenamedPlan ==
    LET on_disk == {ToCurrentName(f) : f \in plan.on_disk}
        files == PlanFiles(TRUE, on_disk, << >>, base_stage, current_stage,
                           file_array)
        order == CHOOSE o \in Perms(on_disk) : TRUE
        new_files == AddScanned(order, files.new_files, Range(file_array))
        grouped == PlanDirs(new_files, base_stage, current_stage, file_array,
                            dirs_tree)
    IN  [share_to_vanilla |-> files.share_to_vanilla,
         new_files |-> Range(new_files),
         new_dir_files |->
             [d \in DOMAIN grouped.new_dir_files |->
                 Range(grouped.new_dir_files[d])],
         new_dir_infos |-> Range(grouped.new_dir_infos)]

\* C10: a run in "not yet renamed" mode plans what a run in "already
\* renamed" mode plans for the same folder with its files renamed; and every
\* asset file that ends up on disk under a current-stage name and is not in
\* the manifest is among the new files.
C10_ModesAgree ==
    /\ (pc = "write" /\ ~is_renamed /\ base_stage /= current_stage
        /\ Cardinality({ToCurrentName(f) : f \in plan.on_disk})
              = Cardinality(plan.on_disk)) =>
           /\ plan.share_to_vanilla = RenamedPlan.share_to_vanilla
           /\ Range(plan.new_files) = RenamedPlan.new_files
           /\ [d \in DOMAIN plan.new_dir_files |->
                  Range(plan.new_dir_files[d])] = RenamedPlan.new_dir_files
           /\ Range(plan.new_dir_infos) = RenamedPlan.new_dir_infos
    /\ (pc = "done" /\ base_stage /= current_stage) =>
           \A f \in fs.files :
               (is_allowed(f) /\ HasCurrentName(f) /\ f \notin Range(file_array))
                   => f \in Range(plan.new_files)

(***************************************************************************)
(* Properties of substitute_stage_name (specification SubstSpec).          *)
(***************************************************************************)
\* s_path is stage/<s_from>/<rest> with a non-empty rest.
HasStageForm ==
    /\ StartsWith(s_path, <<"stage", Slash, s_from, Slash>>)
    /\ Len(s_path) > 4

\* C4: for distinct tokens, a path stage/<from>/<rest> becomes
\* stage/<to>/<rest> and the swapped call gives the path back; every other
\* path is returned unchanged.
C4_Substitution ==
    (s_pc \in {"substituted", "reverted"} /\ s_from /= s_to) =>
        IF HasStageForm
        THEN /\ s_out = <<"stage", Slash, s_to>> \o SubSeq(s_path, 4, Len(s_path))
             /\ s_pc = "reverted" => s_back = s_path
        ELSE s_out = s_path
C4_Witness ==
    /\ s_pc = "reverted"
    /\ s_from /= s_to
    /\ HasStageForm
    /\ s_out /= s_path
    /\ s_back = s_path

(***************************************************************************)
(* Properties of rename_stage (specification RenameSpec).                  *)
(***************************************************************************)
\* The pair the last turn of the loop worked on.
LastPair == Changes(r_old, r_new)[r_i - 1]
TurnTaken == r_pc \in {"loop", "returned"} /\ r_i > 1

\* The list is the effect file, 3 sound files, 10 UI files, then the stage
\* directory.
ListAsDocumented ==
    LET changes == Changes(r_old, r_new)
    IN  /\ Len(changes) = 15
        /\ StartsWith(changes[1][1], <<"effect", Slash>>)
        /\ \A i \in 2..4 : StartsWith(changes[i][1], <<"sound", Slash>>)
        /\ \A i \in 5..14 : StartsWith(changes[i][1], <<"ui", Slash>>)
        /\ changes[15] = << <<"stage", Slash, r_old>>, <<"stage", Slash, r_new>> >>
        /\ \A i \in 1..15 :
              changes[i][2] =
                  Replace(changes[i][1], <<r_old>>, <<r_new>>)

\* C5: each pair is renamed only if its source exists and its destination
\* does not; otherwise, and when the rename raises, source and destination
\* stay as they were, nothing is lost, the pair is not counted, and the
\* loop goes on to the end of the list.
C5_RenameBestEffort ==
    /\ r_pc /= "idle" => ListAsDocumented
    /\ r_pc = "returned" => r_i = 16
    /\ TurnTaken =>
          LET src == LastPair[1]
              dst == LastPair[2]
              before == r_prev.fs
              could == Exists(before, src) /\ ~Exists(before, dst)
          IN  /\ r_result = "True" => could
              /\ r_result = "True" =>
                    /\ r_done = r_prev.done + 1
                    /\ ~Exists(r_fs, src)
                    /\ Exists(r_fs, dst)
                    /\ Cardinality(r_fs.files) = Cardinality(before.files)
                    /\ r_fs.files = {Moved(f, src, dst) : f \in before.files}
              /\ ~could => r_result = "False"
              /\ r_result /= "True" =>
                    /\ r_done = r_prev.done
                    /\ r_fs.files = before.files
                    /\ before.dirs \subseteq r_fs.dirs
                    /\ Exists(r_fs, src) = Exists(before, src)
                    /\ Exists(r_fs, dst) = Exists(before, dst)
\* A pair was skipped because its destination exists, and the loop still
\* reached the end and renamed a later pair.
C5_Witness ==
    /\ r_pc = "returned"
    /\ r_old /= r_new
    /\ r_done > 0
    /\ Exists(r_fs, Changes(r_old, r_new)[2][1])
    /\ Exists(r_fs, Changes(r_old, r_new)[2][2])
    /\ r_result = "True"

(***************************************************************************)
(* Properties of delete_empty_dirs (specification DeleteSpec).             *)
(***************************************************************************)
HoldsFile(disk, d) == \E f \in disk.files : Under(f, d)
IsEmptyDir(disk, d) == \A q \in disk.files \cup disk.dirs : Parent(q) /= d

CleanupSafe ==
    /\ d_fs.files = d_fs0.files
    /\ d_fs.dirs \subseteq d_fs0.dirs
    /\ \A d \in d_fs0.dirs : HoldsFile(d_fs0, d) => d \in d_fs.dirs
    /\ d_pc = "returned" => \A d \in d_fs.dirs : ~IsEmptyDir(d_fs, d)
    /\ d_run = 2 => d_fs = d_out

\* C7: delete_empty_dirs returns; when it does no directory below the root
\* is empty, no file and no directory holding a file has been removed, and
\* a second call removes nothing.
C7_CleanupFixedPoint ==
    /\ <>(d_pc = "returned" /\ d_run = 2)
    /\ []CleanupSafe
\* The second call has returned on a tree from which the first call removed
\* a chain of nested empty directories and kept a directory with a file.
C7_Witness ==
    /\ d_pc = "returned"
    /\ d_run = 2
    /\ \E d \in d_fs0.dirs \ d_fs.dirs : Parent(d) \in d_fs0.dirs \ d_fs.dirs
    /\ d_fs.dirs /= {}

=============================================================================
